---- MODULE Spec2Model ----
(***************************************************************************)
(* Verification model of the "My Trip" tour browser:                       *)
(*   - the useInfiniteTours hook (hooks/use-infinite-tours.ts), as a state  *)
(*     machine of React state, the values captured by the last render, and  *)
(*     the loadMoreTours requests in flight            (specification Spec) *)
(*   - retryRequest / handleApiError of the tour API client                 *)
(*     (lib/api/tour-api.ts)                      (specification SpecRetry) *)
(*   - the pet-info enrichment stage of loadMoreTours                       *)
(*     (actions/load-tours.ts)                   (specification SpecEnrich) *)
(*   - getDetailPetTour over retryRequest            (specification SpecPet) *)
(*   - matchesPetSizeFilter (lib/utils/pet.ts)     (specification SpecMatch) *)
(*   - the filter-parameter codec (lib/utils/filters.ts)                    *)
(*                                                 (specification SpecCodec) *)
(*   - mergeFilterParams and buildFilterParams on their inputs              *)
(*                                     (specifications SpecMerge, SpecBuild) *)
(*   - the filter controls, the navbar search and the tour selection over   *)
(*     the URL (components/tour-filters.tsx, Navbar.tsx,                    *)
(*     tour-list-with-map.tsx)                    (specification SpecFilter) *)
(*   - sortTours (lib/utils/sort.ts)                (specification SpecSort) *)
(*   - extractItems in getAreaBasedList / searchKeyword                     *)
(*                                                  (specification SpecList) *)
(* SpecLive is Spec with the fairness of request settlement and re-render.  *)
(***************************************************************************)
EXTENDS Integers, Sequences, FiniteSets, TLC

VARIABLES
    \* ---- useInfiniteTours: React state (useState cells)
    allTours, petInfoMap, currentPage, totalCount, isLoading, error,
    \* ---- useInfiniteTours: values of the last render (what the loadMore
    \*      closure captured and what the hook exposes)
    render,
    \* ---- the loadMoreTours requests loadMore is awaiting (each with the page
    \*      it asked for, the reset generation it was started in, and, as long
    \*      as nothing changed the accumulator under it, the accumulator as it
    \*      was at the call), the number of requests issued, the number of
    \*      resets applied, and the last operation that ran with its argument
    inflight, issued, gen, last,
    \* ---- retryRequest: one call, its position, the attempts made so far
    retryPc, retryCount, attempts, delays, waiting, lastOutcome, thrown,
    \* ---- loadMoreTours: one call, its page, the pet-info lookups fanned out
    enPc, enPetFriendly, enPetSize, enTours, enLookup, enPromise, enMap, enItems,
    \* ---- getDetailPetTour: one call, its position, what it returned or threw
    petPc, petKey, petValue, petError,
    \* ---- the filter codec run on one input: the query given, the
    \*      FilterParams given or parsed from it, the query built from those,
    \*      that query parsed, and built again
    cdPc, cdQuery, cdFilters, cdBuilt, cdReparsed, cdRebuilt,
    \* ---- the query parameters of the current URL, those before the last UI
    \*      event, and that event
    searchParams, uiPrev, uiEvent,
    \* ---- sortTours: one call, its arguments and the array it returned
    sortPc, sortOption, sortArg, sorted,
    \* ---- matchesPetSizeFilter: one call, its arguments and its result
    matchPc, matchInfo, matchSizes, matchResult,
    \* ---- mergeFilterParams: one call, its arguments and the object returned
    mergePc, mergeCurrent, mergeUpdates, merged,
    \* ---- buildFilterParams: one call, its arguments and the parameters built
    buildPc, buildFilters, buildKeepDefaults, built,
    \* ---- getAreaBasedList: the response body received, its totalCount and
    \*      the result returned
    listPc, listBody, listTotal, listResult

hookVars == <<allTours, petInfoMap, currentPage, totalCount, isLoading, error,
              render, inflight, issued, gen, last>>

retryVars == <<retryPc, retryCount, attempts, delays, waiting, lastOutcome, thrown>>

enrichVars == <<enPc, enPetFriendly, enPetSize, enTours, enLookup, enPromise, enMap, enItems>>

petVars == <<petPc, petKey, petValue, petError>>

codecVars == <<cdPc, cdQuery, cdFilters, cdBuilt, cdReparsed, cdRebuilt>>

uiVars == <<searchParams, uiPrev, uiEvent>>

sortVars == <<sortPc, sortOption, sortArg, sorted>>

matchVars == <<matchPc, matchInfo, matchSizes, matchResult>>

mergeVars == <<mergePc, mergeCurrent, mergeUpdates, merged>>

buildVars == <<buildPc, buildFilters, buildKeepDefaults, built>>

listVars == <<listPc, listBody, listTotal, listResult>>

otherThanHook == <<retryVars, enrichVars, petVars, codecVars, uiVars, sortVars, matchVars, mergeVars, buildVars, listVars>>

otherThanRetry == <<hookVars, enrichVars, petVars, codecVars, uiVars, sortVars, matchVars, mergeVars, buildVars, listVars>>

otherThanEnrich == <<hookVars, retryVars, petVars, codecVars, uiVars, sortVars, matchVars, mergeVars, buildVars, listVars>>

otherThanPet == <<hookVars, enrichVars, codecVars, uiVars, sortVars, matchVars, mergeVars, buildVars, listVars>>

otherThanCodec == <<hookVars, retryVars, enrichVars, petVars, uiVars, sortVars, matchVars, mergeVars, buildVars, listVars>>

otherThanUi == <<hookVars, retryVars, enrichVars, petVars, codecVars, sortVars, matchVars, mergeVars, buildVars, listVars>>

otherThanSort == <<hookVars, retryVars, enrichVars, petVars, codecVars, uiVars, matchVars, mergeVars, buildVars, listVars>>

otherThanMatch == <<hookVars, retryVars, enrichVars, petVars, codecVars, uiVars, sortVars, mergeVars, buildVars, listVars>>

otherThanMerge == <<hookVars, retryVars, enrichVars, petVars, codecVars, uiVars, sortVars, matchVars, buildVars, listVars>>

otherThanBuild == <<hookVars, retryVars, enrichVars, petVars, codecVars, uiVars, sortVars, matchVars, mergeVars, listVars>>

otherThanList == <<hookVars, retryVars, enrichVars, petVars, codecVars, uiVars, sortVars, matchVars, mergeVars, buildVars>>

vars == <<hookVars, retryVars, enrichVars, petVars, codecVars, uiVars, sortVars, matchVars, mergeVars, buildVars, listVars>>

(***************************************************************************)
(* Bounds of the model                                                     *)
(***************************************************************************)
MaxIssued == 2
MaxResets == 1
MaxTotalPages == 2
MaxFanOut == 3
MaxPetSizes == 2
MaxPageLen == 2
MaxSortLen == 3
MaxListLen == 3

(***************************************************************************)
(* Values                                                                  *)
(***************************************************************************)
Null == "null"

\* an optional value: absent (undefined, or null for a missing query
\* parameter), or present
None == <<>>

Some(v) == <<v>>

numOfRows == 20

\* contentids of the items the hook is fed: successive pages may repeat an
\* item, and a later lookup of it may differ from an earlier one
ContentIds == {1}

\* PetTourInfo | null, reduced to the leash flag chkpetleash
PetVals == {"Y", Null}

\* totalCount values reported by the upstream: exactly one page, and one item
\* more than MaxTotalPages pages
TotalCounts == {numOfRows, MaxTotalPages * numOfRows + 1}

\* the value of the error cell: null, or the Error a request was rejected with
NoFailure == [name |-> Null, req |-> 0]

Failure(req) == [name |-> "Error", req |-> req.id]

\* sequences over S of length 0..n
RECURSIVE SeqsUpTo(_, _)
SeqsUpTo(S, n) ==
    IF n = 0 THEN {<<>>}
    ELSE LET shorter == SeqsUpTo(S, n - 1)
         IN  shorter \cup {Append(s, x) : s \in {t \in shorter : Len(t) = n - 1}, x \in S}

Range(s) == {s[i] : i \in DOMAIN s}

\* a TourItem: its contentid, and where it came from (which reset generation
\* requested it, as which page)
Item(c, g, p) == [contentid |-> c, gen |-> g, page |-> p]

ItemsOf(cids, g, p) == [i \in 1..Len(cids) |-> Item(cids[i], g, p)]

\* Map<string, PetTourInfo | null> as a function on the set of its keys
EmptyMap == << >>

\* the pages the upstream can return to the hook: no item, or one
RawPages == {<<>>} \cup {<<c>> : c \in ContentIds}

\* items and petInfoMap computed for a page: without the pet filter the page
\* and an empty map; with it one map entry per looked-up item and the items
\* whose PetInfo allows pets
PageOutcomes(g, p) ==
    {[items |-> ItemsOf(c, g, p), petInfoMap |-> EmptyMap] : c \in RawPages}
    \cup UNION {{[items |-> ItemsOf(SelectSeq(c, LAMBDA x : m[x] = "Y"), g, p),
                  petInfoMap |-> m] : m \in [Range(c) -> PetVals]}
               : c \in RawPages \ {<<>>}}

\* what the server action returns for page p requested in generation g
Results(g, p) ==
    {[items |-> o.items, petInfoMap |-> o.petInfoMap, totalCount |-> tc] :
        o \in PageOutcomes(g, p), tc \in TotalCounts}

\* what the list component hands to the hook: the first page of a configuration
InitialData(g) ==
    {[initialTours |-> o.items, initialPetInfoMap |-> o.petInfoMap, initialTotalCount |-> tc] :
        o \in PageOutcomes(g, 1), tc \in TotalCounts}

NoReq == [id |-> 0, pageNo |-> 0, gen |-> 0]

Last(name, req, payload) == [name |-> name, req |-> req, payload |-> payload]

(***************************************************************************)
(* useInfiniteTours                                                        *)
(***************************************************************************)
\* const hasMore = currentPage * numOfRows < totalCount
HasMore(cp, tc) == cp * numOfRows < tc

\* one evaluation of the hook body: the values the render sees
RenderOf(cp, tc, ld) ==
    [currentPage |-> cp, totalCount |-> tc, isLoading |-> ld, hasMore |-> HasMore(cp, tc)]

\* new Map(prev) followed by newMap.set(contentId, petInfo) for every entry
MergeMap(prev, upd) ==
    [c \in (DOMAIN prev) \cup (DOMAIN upd) |-> IF c \in DOMAIN upd THEN upd[c] ELSE prev[c]]

HookInit ==
    \E d \in InitialData(0) :
        /\ allTours = d.initialTours
        /\ petInfoMap = d.initialPetInfoMap
        /\ currentPage = 1
        /\ totalCount = d.initialTotalCount
        /\ isLoading = FALSE
        /\ error = NoFailure
        /\ render = RenderOf(1, d.initialTotalCount, FALSE)
        /\ inflight = {}
        /\ issued = 0
        /\ gen = 0
        /\ last = Last("init", NoReq, Null)

\* React re-renders the hook after state updates: hasMore is recomputed and
\* loadMore is re-created over the current currentPage / isLoading / hasMore
Render ==
    /\ render # RenderOf(currentPage, totalCount, isLoading)
    /\ render' = RenderOf(currentPage, totalCount, isLoading)
    /\ UNCHANGED <<allTours, petInfoMap, currentPage, totalCount, isLoading, error,
                   inflight, issued, gen, last>>
    /\ UNCHANGED otherThanHook

\* the guard of loadMore, over the values its closure captured
LoadMoreGuard_Mut == render.isLoading

LoadMoreGuard == render.isLoading \/ ~render.hasMore

\* loadMore() returning at its guard
LoadMoreNoop ==
    /\ LoadMoreGuard
    /\ last' = Last("loadMoreNoop", NoReq, Null)
    /\ UNCHANGED <<allTours, petInfoMap, currentPage, totalCount, isLoading, error,
                   render, inflight, issued, gen>>
    /\ UNCHANGED otherThanHook

\* loadMore() up to its await: one loadMoreTours request is issued
LoadMoreStart ==
    /\ ~LoadMoreGuard
    /\ issued < MaxIssued
    /\ LET req == [id |-> issued + 1,
                   pageNo |-> render.currentPage + 1,
                   gen |-> gen,
                   dirty |-> FALSE,
                   fresh |-> render.currentPage = currentPage,
                   snap |-> <<allTours, petInfoMap, currentPage, totalCount>>]
       IN  /\ inflight' = inflight \cup {req}
           /\ last' = Last("loadMoreStart", NoReq, Null)
    /\ isLoading' = TRUE
    /\ error' = NoFailure
    /\ issued' = issued + 1
    /\ UNCHANGED <<allTours, petInfoMap, currentPage, totalCount, render, gen>>
    /\ UNCHANGED otherThanHook

\* the other requests in flight have seen the accumulator change under them
Dirtied(reqs) == {[q EXCEPT !.dirty = TRUE, !.snap = <<>>] : q \in reqs}

\* the page setCurrentPage stores: both branches of the conditional are the
\* closure's currentPage + 1, which is the requested page number
NextPage(req) == req.pageNo

LoadMoreSuccess_Mut ==
    \E req \in inflight : \E r \in Results(req.gen, req.pageNo) :
        /\ allTours' = allTours \o r.items
        /\ petInfoMap' = MergeMap(petInfoMap, r.petInfoMap)
        /\ currentPage' = NextPage(req)
        /\ totalCount' = r.totalCount
        /\ inflight' = Dirtied(inflight \ {req})
        /\ last' = Last("success", [id |-> req.id, pageNo |-> req.pageNo, gen |-> req.gen], r)
        /\ UNCHANGED <<isLoading, error, render, issued, gen>>
        /\ UNCHANGED otherThanHook

\* loadMore() after its await, the request fulfilled with result r
LoadMoreSuccess ==
    \E req \in inflight : \E r \in Results(req.gen, req.pageNo) :
        /\ allTours' = allTours \o r.items
        /\ petInfoMap' = MergeMap(petInfoMap, r.petInfoMap)
        /\ currentPage' = NextPage(req)
        /\ totalCount' = r.totalCount
        /\ isLoading' = FALSE
        /\ inflight' = Dirtied(inflight \ {req})
        /\ last' = Last("success", [id |-> req.id, pageNo |-> req.pageNo, gen |-> req.gen], r)
        /\ UNCHANGED <<error, render, issued, gen>>
        /\ UNCHANGED otherThanHook

LoadMoreFailure_Mut ==
    \E req \in inflight :
        /\ error' = Failure(req)
        /\ isLoading' = FALSE
        /\ allTours' = <<>>
        /\ petInfoMap' = EmptyMap
        /\ currentPage' = 1
        /\ inflight' = inflight \ {req}
        /\ last' = Last("failure", [id |-> req.id, pageNo |-> req.pageNo, gen |-> req.gen], Null)
        /\ UNCHANGED <<totalCount, render, issued, gen>>
        /\ UNCHANGED otherThanHook

\* loadMore() after its await, the request rejected: catch
\* records the error, finally clears isLoading
LoadMoreFailure ==
    \E req \in inflight :
        /\ error' = Failure(req)
        /\ isLoading' = FALSE
        /\ inflight' = inflight \ {req}
        /\ last' = Last("failure", [id |-> req.id, pageNo |-> req.pageNo, gen |-> req.gen], Null)
        /\ UNCHANGED <<allTours, petInfoMap, currentPage, totalCount, render, issued, gen>>
        /\ UNCHANGED otherThanHook

Reset_Mut ==
    /\ gen < MaxResets
    /\ \E d \in InitialData(gen + 1) :
        /\ allTours' = d.initialTours
        /\ petInfoMap' = MergeMap(petInfoMap, d.initialPetInfoMap)
        /\ currentPage' = 1
        /\ totalCount' = d.initialTotalCount
        /\ error' = NoFailure
        /\ last' = Last("reset", NoReq, d)
    /\ gen' = gen + 1
    /\ inflight' = Dirtied(inflight)
    /\ UNCHANGED <<isLoading, render, issued>>
    /\ UNCHANGED otherThanHook

\* reset(newData): called by the list component when its initial data change
Reset ==
    /\ gen < MaxResets
    /\ \E d \in InitialData(gen + 1) :
        /\ allTours' = d.initialTours
        /\ petInfoMap' = d.initialPetInfoMap
        /\ currentPage' = 1
        /\ totalCount' = d.initialTotalCount
        /\ error' = NoFailure
        /\ isLoading' = FALSE
        /\ last' = Last("reset", NoReq, d)
    /\ gen' = gen + 1
    /\ inflight' = Dirtied(inflight)
    /\ UNCHANGED <<render, issued>>
    /\ UNCHANGED otherThanHook

\* TourList({tours, isLoading = false, error = null, onRetry}): the error
\* view in place of the list when error is set, the empty state for no
\* tour, the cards otherwise
TourList(tours, hasError, hasOnRetry) ==
    IF hasError THEN [view |-> "error", showRetry |-> hasOnRetry, cards |-> <<>>]
    ELSE IF Len(tours) = 0 THEN [view |-> "empty", showRetry |-> FALSE, cards |-> <<>>]
    ELSE [view |-> "list", showRetry |-> FALSE, cards |-> tours]

\* const displayError = error || loadMoreError
displayError(initialError, loadMoreError) == initialError \/ loadMoreError # NoFailure

\* what TourListWithMap shows for the hook's state, the first page having
\* loaded: <TourList tours={tours} error={displayError} ... /> without onRetry
Rendered == TourList(allTours, displayError(FALSE, error), FALSE)

\* the hook before it is mounted (the other specifications leave it there)
HookIdle ==
    /\ allTours = <<>>
    /\ petInfoMap = EmptyMap
    /\ currentPage = 1
    /\ totalCount = 0
    /\ isLoading = FALSE
    /\ error = NoFailure
    /\ render = RenderOf(1, 0, FALSE)
    /\ inflight = {}
    /\ issued = 0
    /\ gen = 0
    /\ last = Last("idle", NoReq, Null)

(***************************************************************************)
(* retryRequest / handleApiError                                           *)
(***************************************************************************)
\* RETRY_CONFIG
maxRetries == 3

backoffMs == <<1000, 2000, 4000>>

\* message texts are sequences of words; String.prototype.includes('fetch')
\* finds the word in the text
Includes(message, word) == \E i \in DOMAIN message : message[i] = word

Err(name, message, statusCode, resultCode) ==
    [name |-> name, message |-> message, statusCode |-> statusCode, resultCode |-> resultCode]

NoError == Err("none", <<>>, 0, Null)

TourApiError(message, statusCode, resultCode) == Err("TourApiError", message, statusCode, resultCode)

\* resultMsg texts the upstream can send with a result header
ResultMsgs == {<<>>, <<"NO", "DATA">>, <<"failed", "to", "fetch", "data">>}

ResultCodes == {"0000", "0003", "99"}

\* response bodies: text that is not JSON (which a JSON parser may or may not
\* quote in its error message), JSON null, JSON without response.header, and
\* JSON with a header
Bodies ==
    {[shape |-> "notJson", text |-> t, quoted |-> q, resultCode |-> Null, resultMsg |-> <<>>] :
        t \in {<<"<html>">>, <<"fetch", "error">>}, q \in BOOLEAN}
    \cup {[shape |-> sh, text |-> <<>>, quoted |-> FALSE, resultCode |-> Null, resultMsg |-> <<>>] :
        sh \in {"jsonNull", "noHeader"}}
    \cup {[shape |-> "header", text |-> <<>>, quoted |-> FALSE, resultCode |-> rc, resultMsg |-> rm] :
        rc \in ResultCodes, rm \in ResultMsgs}

NoBody == [shape |-> "none", text |-> <<>>, quoted |-> FALSE, resultCode |-> Null, resultMsg |-> <<>>]

Statuses == {200, 404, 429, 500, 503}

\* messages of the TypeError fetch rejects with on a network failure
\* (runtime dependent)
NetworkMessages == {<<"fetch", "failed">>, <<"Failed", "to", "fetch">>, <<"Load", "failed">>}

\* what one fetch() can end with: the timeout aborting it, a network failure,
\* or an HTTP response
Outcomes ==
    {[kind |-> "abort", status |-> 0, message |-> <<"This", "operation", "was", "aborted">>, body |-> NoBody]}
    \cup {[kind |-> "network", status |-> 0, message |-> m, body |-> NoBody] : m \in NetworkMessages}
    \cup {[kind |-> "http", status |-> st, message |-> <<>>, body |-> b] : st \in Statuses, b \in Bodies}

NoOutcome == [kind |-> "none", status |-> 0, message |-> <<>>, body |-> NoBody]

\* response.ok
Ok(status) == status >= 200 /\ status <= 299

\* handleApiError(response, body): the error it throws
handleApiError(statusCode, body) ==
    LET message == <<"API", "request", "failed", ToString(statusCode)>>
    IN  IF body.shape = "header"
        THEN TourApiError(IF body.resultMsg # <<>> THEN body.resultMsg ELSE message,
                          statusCode, body.resultCode)
        ELSE IF statusCode = 429
        THEN TourApiError(<<"rate", "limit", "reached">>, 429, Null)
        ELSE IF statusCode >= 500
        THEN TourApiError(<<"server", "error">>, statusCode, Null)
        ELSE TourApiError(message, statusCode, Null)

\* the error response.json() rejects with for a body that is not JSON
JsonSyntaxError(body) ==
    Err("SyntaxError",
        <<"Unexpected", "token">> \o (IF body.quoted THEN body.text ELSE <<>>) \o <<"is", "not", "valid", "JSON">>,
        0, Null)

\* the try block of retryRequest on one fetch outcome: the value returned
\* ([ok |-> TRUE]) or the error thrown into the catch block
TryBlock(o) ==
    IF o.kind = "abort" THEN [ok |-> FALSE, error |-> Err("AbortError", o.message, 0, Null)]
    ELSE IF o.kind = "network" THEN [ok |-> FALSE, error |-> Err("TypeError", o.message, 0, Null)]
    ELSE IF ~Ok(o.status)
    THEN IF o.status >= 400 /\ o.status < 500
         THEN \* response.json().catch(() => ({})): a body without header
              [ok |-> FALSE,
               error |-> handleApiError(o.status,
                            IF o.body.shape = "notJson" THEN [o.body EXCEPT !.shape = "noHeader"] ELSE o.body)]
         ELSE [ok |-> FALSE, error |-> Err("Error", <<"HTTP", ToString(o.status)>>, 0, Null)]
    ELSE IF o.body.shape = "notJson" THEN [ok |-> FALSE, error |-> JsonSyntaxError(o.body)]
    ELSE IF o.body.shape = "jsonNull"
    THEN [ok |-> FALSE, error |-> Err("TypeError", <<"Cannot", "read", "properties", "of", "null">>, 0, Null)]
    ELSE IF ~(o.body.shape = "header" /\ o.body.resultCode = "0000")
    THEN [ok |-> FALSE, error |-> handleApiError(o.status, o.body)]
    ELSE [ok |-> TRUE, error |-> NoError]

\* the first test of the catch block: AbortError or a message with 'fetch'
IsRetryable(e) == e.name = "AbortError" \/ Includes(e.message, "fetch")

CanRetry_Mut(n) == n <= maxRetries

\* retryCount < RETRY_CONFIG.maxRetries
CanRetry(n) == n < maxRetries

\* RETRY_CONFIG.backoffMs[retryCount] || 4000
Delay(n) == IF n + 1 \in DOMAIN backoffMs THEN backoffMs[n + 1] ELSE 4000

\* the error the catch block throws when it does not retry
CatchThrows(e) ==
    IF IsRetryable(e) THEN TourApiError(<<"network", "error">>, 0, Null)
    ELSE IF e.name = "TourApiError" THEN e
    ELSE TourApiError(<<"unexpected", "error">> \o e.message, 0, Null)

\* no retryRequest call is running (the other specifications leave it there)
RetryIdle ==
    /\ retryPc = "idle"
    /\ retryCount = 0
    /\ attempts = 0
    /\ delays = <<>>
    /\ waiting = 0
    /\ lastOutcome = NoOutcome
    /\ thrown = NoError

\* retryRequest(url) is called: retryCount = 0
RetryInit ==
    /\ retryPc = "fetch"
    /\ retryCount = 0
    /\ attempts = 0
    /\ delays = <<>>
    /\ waiting = 0
    /\ lastOutcome = NoOutcome
    /\ thrown = NoError

\* one pass through retryRequest: fetch settles with outcome o, the try block
\* returns or throws, the catch block rethrows or starts the backoff timer
RetryAttempt ==
    /\ retryPc = "fetch"
    /\ \E o \in Outcomes :
        LET t == TryBlock(o)
        IN  /\ lastOutcome' = o
            /\ attempts' = attempts + 1
            /\ IF t.ok
               THEN retryPc' = "returned" /\ thrown' = thrown /\ waiting' = waiting
               ELSE IF IsRetryable(t.error) /\ CanRetry(retryCount)
               THEN retryPc' = "backoff" /\ thrown' = thrown /\ waiting' = Delay(retryCount)
               ELSE retryPc' = "thrown" /\ thrown' = CatchThrows(t.error) /\ waiting' = waiting
    /\ UNCHANGED <<retryCount, delays>>
    /\ UNCHANGED otherThanRetry

\* the backoff timer fires: retryRequest(url, options, retryCount + 1)
RetryBackoff ==
    /\ retryPc = "backoff"
    /\ delays' = Append(delays, waiting)
    /\ retryCount' = retryCount + 1
    /\ retryPc' = "fetch"
    /\ UNCHANGED <<attempts, waiting, lastOutcome, thrown>>
    /\ UNCHANGED otherThanRetry

(***************************************************************************)
(* extractItems / getDetailPetTour                                         *)
(***************************************************************************)
\* the body of a response as extractItems reads it: no body at all, items
\* an empty string or an object without item (a response carrying no item),
\* item a bare object (one), or item an array (many)
ItemBody(shape, one, many) == [shape |-> shape, one |-> one, many |-> many]

Undefined == "undefined"

ItemBodies(elems, n) ==
    {ItemBody("noBody", Undefined, <<>>), ItemBody("noItem", Undefined, <<>>)}
        \cup {ItemBody("single", e, <<>>) : e \in elems}
        \cup {ItemBody("array", Undefined, a) : a \in SeqsUpTo(elems, n)}

\* the bodies of the responses to detailPetTour2
PetBodies == ItemBodies({"info", "info2"}, 2)

\* extractItems(response): the array it returns, as [ok |-> TRUE, items |-> _],
\* or the TypeError reading response.body.items.item throws
extractItems(body) ==
    IF body.shape = "noBody"
    THEN [ok |-> FALSE, items |-> <<>>,
          error |-> Err("TypeError", <<"Cannot", "read", "properties", "of", "undefined">>, 0, Null)]
    ELSE [ok |-> TRUE,
          items |-> IF body.shape = "array" THEN body.many ELSE <<body.one>>,
          error |-> NoError]

\* no getDetailPetTour call is running (the other specifications leave it there)
PetIdle ==
    /\ petPc = "idle"
    /\ petKey = TRUE
    /\ petValue = Undefined
    /\ petError = NoError

\* getDetailPetTour(params) is called, with or without an API key configured
PetInit ==
    /\ petPc = "call"
    /\ petKey \in BOOLEAN
    /\ petValue = Undefined
    /\ petError = NoError

\* buildQueryParams throws without a service key (outside the try block);
\* otherwise retryRequest(url) is called
PetCall ==
    /\ petPc = "call"
    /\ retryPc = "idle"
    /\ IF petKey
       THEN /\ petPc' = "await"
            /\ retryPc' = "fetch"
            /\ petError' = petError
       ELSE /\ petPc' = "threw"
            /\ petError' = TourApiError(<<"API", "key", "is", "not", "set">>, 0, Null)
            /\ retryPc' = retryPc
    /\ UNCHANGED <<petKey, petValue>>
    /\ UNCHANGED <<retryCount, attempts, delays, waiting, lastOutcome, thrown>>
    /\ UNCHANGED otherThanPet

\* the catch block of getDetailPetTour: null for a TourApiError with result
\* code '0003', the error rethrown otherwise
PetCatch(e) ==
    IF e.name = "TourApiError" /\ e.resultCode = "0003"
    THEN [threw |-> FALSE, value |-> Null, error |-> NoError]
    ELSE [threw |-> TRUE, value |-> Undefined, error |-> e]

\* retryRequest returned the response: extractItems, then null for no item
\* and items[0] otherwise; a throw of extractItems goes through the catch block
PetReturn ==
    /\ petPc = "await"
    /\ retryPc = "returned"
    /\ \E body \in PetBodies :
        LET x == extractItems(body)
            c == PetCatch(x.error)
        IN  IF x.ok
            THEN /\ petPc' = "returned"
                 /\ petValue' = IF Len(x.items) = 0 THEN Null ELSE x.items[1]
                 /\ petError' = petError
            ELSE /\ petPc' = IF c.threw THEN "threw" ELSE "returned"
                 /\ petValue' = c.value
                 /\ petError' = c.error
    /\ UNCHANGED petKey
    /\ UNCHANGED retryVars
    /\ UNCHANGED otherThanPet

\* retryRequest threw: the catch block
PetThrown ==
    /\ petPc = "await"
    /\ retryPc = "thrown"
    /\ LET c == PetCatch(thrown)
       IN  /\ petPc' = IF c.threw THEN "threw" ELSE "returned"
           /\ petValue' = c.value
           /\ petError' = c.error
    /\ UNCHANGED petKey
    /\ UNCHANGED retryVars
    /\ UNCHANGED otherThanPet

(***************************************************************************)
(* getAreaBasedList / searchKeyword: the response turned into a result     *)
(***************************************************************************)
\* the items the upstream sends
TourIds == {"tour1", "tour2", "tour3"}

\* the bodies of the responses to areaBasedList2 and searchKeyword2
ListBodies == ItemBodies(TourIds, MaxListLen)

NoListResult == [items |-> <<>>, totalCount |-> 0]

ListIdle ==
    /\ listPc = "idle"
    /\ listBody = ItemBody("noBody", Undefined, <<>>)
    /\ listTotal = 0
    /\ listResult = NoListResult

\* retryRequest has returned the response; its body carries the item field
\* and totalCount
ListInit ==
    /\ listPc = "response"
    /\ listBody \in ListBodies
    /\ listTotal \in {0, numOfRows + 1}
    /\ listResult = NoListResult

\* const items = extractItems(response); return { items, totalCount, ... }:
\* a throw of extractItems is not caught
ListReturn ==
    /\ listPc = "response"
    /\ LET x == extractItems(listBody)
       IN  IF x.ok
           THEN /\ listPc' = "returned"
                /\ listResult' = [items |-> x.items, totalCount |-> listTotal]
           ELSE /\ listPc' = "threw"
                /\ listResult' = listResult
    /\ UNCHANGED <<listBody, listTotal>>
    /\ UNCHANGED otherThanList

(***************************************************************************)
(* lib/utils/pet.ts                                                        *)
(***************************************************************************)
\* String.prototype.toLowerCase, character by character
LowerChar(c) == IF c = "S" THEN "s" ELSE IF c = "M" THEN "m" ELSE c

toLowerCase(s) == [i \in DOMAIN s |-> LowerChar(s[i])]

\* String.prototype.includes: part occurs in whole as a contiguous run
includes(whole, part) ==
    \E k \in 0..(Len(whole) - Len(part)) :
        \A i \in DOMAIN part : whole[k + i] = part[i]

\* the chkpetsize texts of the model: empty, one size class, a size class
\* written longer than the filter's token, and letters in either case
SoHyeong == <<"so", "hyeong">>

PetSizeTexts == {<<>>, SoHyeong, <<"dae", "hyeong", "gyeon">>, <<"S">>, <<"s", "m">>}

\* PetTourInfo: chkpetleash and chkpetsize, each optional
PetTourInfos ==
    [chkpetleash : {None, Some("Y"), Some("N"), Some("y")},
     chkpetsize : {None} \cup {Some(t) : t \in PetSizeTexts}]

\* the size tokens a caller can pass
SizeTokens == {<<"so", "hyeong", "gyeon">>, <<"dae", "hyeong", "gyeon">>, <<"s">>, <<"M">>}

\* isPetFriendly(petInfo): present and chkpetleash === 'Y'
isPetFriendly(petInfo) ==
    IF petInfo = None THEN FALSE
    ELSE petInfo[1].chkpetleash = Some("Y")

matchesPetSizeFilter_Mut(petInfo, filterSizes) ==
    IF petInfo = None \/ ~isPetFriendly(petInfo) THEN FALSE
    ELSE IF Len(filterSizes) = 0 THEN TRUE
    ELSE LET petSize == petInfo[1].chkpetsize
         IN  IF petSize = None \/ petSize = Some(<<>>) THEN FALSE
             ELSE \E i \in DOMAIN filterSizes :
                     toLowerCase(petSize[1]) = toLowerCase(filterSizes[i])

\* matchesPetSizeFilter(petInfo, filterSizes)
matchesPetSizeFilter(petInfo, filterSizes) ==
    IF petInfo = None \/ ~isPetFriendly(petInfo) THEN FALSE
    ELSE IF Len(filterSizes) = 0 THEN TRUE
    ELSE LET petSize == petInfo[1].chkpetsize
         IN  IF petSize = None \/ petSize = Some(<<>>) THEN FALSE
             ELSE \E i \in DOMAIN filterSizes :
                     LET normalizedPetSize == toLowerCase(petSize[1])
                         normalizedFilterSize == toLowerCase(filterSizes[i])
                     IN  \/ includes(normalizedPetSize, normalizedFilterSize)
                         \/ includes(normalizedFilterSize, normalizedPetSize)

\* no matchesPetSizeFilter call is being looked at
MatchIdle ==
    /\ matchPc = "idle"
    /\ matchInfo = None
    /\ matchSizes = <<>>
    /\ matchResult = FALSE

\* matchesPetSizeFilter(petInfo, filterSizes) is called
MatchInit ==
    /\ matchPc = "call"
    /\ matchInfo \in {None} \cup {Some(info) : info \in PetTourInfos}
    /\ matchSizes \in SeqsUpTo(SizeTokens, MaxPetSizes)
    /\ matchResult = FALSE

\* it returns
MatchReturn ==
    /\ matchPc = "call"
    /\ matchResult' = matchesPetSizeFilter(matchInfo, matchSizes)
    /\ matchPc' = "returned"
    /\ UNCHANGED <<matchInfo, matchSizes>>
    /\ UNCHANGED otherThanMatch

(***************************************************************************)
(* loadMoreTours: the pet-info enrichment stage                            *)
(***************************************************************************)
\* contentids of the pages the stage is run on
EnrichIds == 1..MaxFanOut

\* the PetTourInfo values the lookups of the stage return
EnrichInfos ==
    {[chkpetleash |-> Some("Y"), chkpetsize |-> Some(SoHyeong)],
     [chkpetleash |-> Some("Y"), chkpetsize |-> None],
     [chkpetleash |-> Some("N"), chkpetsize |-> Some(SoHyeong)]}

\* the petSize arguments the stage is called with
EnrichPetSizes == {<<>>, << <<"so", "hyeong", "gyeon">> >>}

\* what getDetailPetTour can end with for one item: it throws, it finds no
\* pet info (null), or it returns the item's PetTourInfo
LookupOutcomes ==
    {[kind |-> "throw", petInfo |-> None], [kind |-> "return", petInfo |-> None]}
        \cup {[kind |-> "return", petInfo |-> Some(info)] : info \in EnrichInfos}

Pending == [kind |-> "pending", petInfo |-> None]

Wrapped_Mut(cid, out) ==
    IF out.kind = "throw"
    THEN [status |-> "rejected", contentId |-> cid, petInfo |-> None]
    ELSE [status |-> "fulfilled", contentId |-> cid, petInfo |-> out.petInfo]

\* the async callback of tours.map: try { await getDetailPetTour } catch
\* { petInfo: null }, as the settled promise Promise.allSettled reports
Wrapped(cid, out) ==
    IF out.kind = "throw"
    THEN [status |-> "fulfilled", contentId |-> cid, petInfo |-> None]
    ELSE [status |-> "fulfilled", contentId |-> cid, petInfo |-> out.petInfo]

\* petInfoResults.forEach: petInfoMap.set for every fulfilled result, in order
RECURSIVE SetAll(_, _)
SetAll(m, results) ==
    IF results = <<>> THEN m
    ELSE LET r == Head(results)
             m1 == IF r.status = "fulfilled"
                   THEN [c \in DOMAIN m \cup {r.contentId} |-> IF c = r.contentId THEN r.petInfo ELSE m[c]]
                   ELSE m
         IN  SetAll(m1, Tail(results))

FilterPet_Mut(tours, m, petSize) ==
    SelectSeq(tours, LAMBDA c : isPetFriendly(IF c \in DOMAIN m THEN m[c] ELSE None))

\* tours.filter(...): petInfoMap.get(id) || null is pet friendly and, with a
\* size filter requested, matches it
FilterPet(tours, m, petSize) ==
    SelectSeq(tours, LAMBDA c :
        LET petInfo == IF c \in DOMAIN m THEN m[c] ELSE None
            isPet == isPetFriendly(petInfo)
        IN  IF Len(petSize) > 0
            THEN isPet /\ matchesPetSizeFilter(petInfo, petSize)
            ELSE isPet)

\* no loadMoreTours call is running (the other specifications leave it there)
EnrichIdle ==
    /\ enPc = "idle"
    /\ enPetFriendly = FALSE
    /\ enPetSize = <<>>
    /\ enTours = <<>>
    /\ enLookup = <<>>
    /\ enPromise = <<>>
    /\ enMap = EmptyMap
    /\ enItems = <<>>

\* loadMoreTours(params) is called and awaits the list call
EnrichInit ==
    /\ enPc = "list"
    /\ enPetFriendly \in BOOLEAN
    /\ enPetSize \in EnrichPetSizes
    /\ enTours = <<>>
    /\ enLookup = <<>>
    /\ enPromise = <<>>
    /\ enMap = EmptyMap
    /\ enItems = <<>>

\* the list call settles: it throws (the outer catch rethrows), or it returns
\* a page; with the pet filter on and a non-empty page the lookups are fanned
\* out, otherwise the page is returned with an empty map
EnrichList ==
    /\ enPc = "list"
    /\ \/ /\ enPc' = "failed"
          /\ UNCHANGED <<enTours, enLookup, enPromise, enItems>>
       \/ \E page \in SeqsUpTo(EnrichIds, MaxFanOut) :
            /\ enTours' = page
            /\ IF enPetFriendly /\ Len(page) > 0
               THEN /\ enPc' = "lookups"
                    /\ enLookup' = [i \in DOMAIN page |-> Pending]
                    /\ enPromise' = [i \in DOMAIN page |->
                                        [status |-> "pending", contentId |-> page[i], petInfo |-> None]]
                    /\ enItems' = enItems
               ELSE /\ enPc' = "done"
                    /\ enItems' = page
                    /\ UNCHANGED <<enLookup, enPromise>>
    /\ UNCHANGED <<enPetFriendly, enPetSize, enMap>>
    /\ UNCHANGED otherThanEnrich

\* one getDetailPetTour call settles and with it its wrapping promise
LookupSettle ==
    /\ enPc = "lookups"
    /\ \E i \in DOMAIN enLookup : \E out \in LookupOutcomes :
        /\ enLookup[i] = Pending
        /\ enLookup' = [enLookup EXCEPT ![i] = out]
        /\ enPromise' = [enPromise EXCEPT ![i] = Wrapped(enTours[i], out)]
    /\ UNCHANGED <<enPc, enPetFriendly, enPetSize, enTours, enMap, enItems>>
    /\ UNCHANGED otherThanEnrich

\* Promise.allSettled resolves: the map is built, the page filtered, the
\* result returned (items without modifiedtime keep their order in sortTours)
EnrichCollect ==
    /\ enPc = "lookups"
    /\ \A i \in DOMAIN enPromise : enPromise[i].status # "pending"
    /\ enMap' = SetAll(EmptyMap, enPromise)
    /\ enItems' = FilterPet(enTours, enMap', enPetSize)
    /\ enPc' = "done"
    /\ UNCHANGED <<enPetFriendly, enPetSize, enTours, enLookup, enPromise>>
    /\ UNCHANGED otherThanEnrich

(***************************************************************************)
(* lib/utils/filters.ts: the filter-parameter codec                        *)
(***************************************************************************)
FilterKeys == {"areaCode", "contentTypeId", "sort", "petFriendly", "petSize", "keyword", "page"}

\* the values of areaCode, contentTypeId, sort and petFriendly are atomic
\* strings; those of petSize, keyword and page are sequences of characters
CharKeys == {"petSize", "keyword", "page"}

\* a string of 21 zero digits, as one element of a sequence of characters
Zeros21 == "000000000000000000000"

Digits == <<"0", "1", "2", "3", "4", "5", "6", "7", "8", "9">>

IsDigit(c) == \E i \in DOMAIN Digits : Digits[i] = c

DigitValue(c) == (CHOOSE i \in DOMAIN Digits : Digits[i] = c) - 1

\* a JavaScript number: an integer, NaN, or n * 10^21 (1 <= n <= 9)
Num(n) == [kind |-> "int", n |-> n]

NaN == [kind |-> "nan", n |-> 0]

E21(n) == [kind |-> "e21", n |-> n]

\* the value of the digits of s read from position i on, after the digits
\* read so far gave acc; seen: at least one digit was read
RECURSIVE ReadDigits(_, _, _, _)
ReadDigits(s, i, acc, seen) ==
    IF i > Len(s) \/ ~(IsDigit(s[i]) \/ s[i] = Zeros21)
    THEN IF seen THEN acc ELSE NaN
    ELSE IF s[i] = Zeros21
    THEN ReadDigits(s, i + 1, IF acc.kind = "int" /\ acc.n # 0 THEN E21(acc.n) ELSE acc, TRUE)
    ELSE ReadDigits(s, i + 1, Num(acc.n * 10 + DigitValue(s[i])), TRUE)

\* parseInt(s, 10): the leading run of decimal digits, NaN without one
parseInt(s) == ReadDigits(s, 1, Num(0), FALSE)

RECURSIVE DigitsOf(_)
DigitsOf(n) == IF n < 10 THEN <<Digits[n + 1]>> ELSE Append(DigitsOf(n \div 10), Digits[(n % 10) + 1])

\* Number.prototype.toString(): decimal digits below 10^21, exponent
\* notation from 10^21 on
NumToString(x) ==
    CASE x.kind = "nan" -> <<"N", "a", "N">>
      [] x.kind = "e21" -> DigitsOf(x.n) \o <<"e", "+", "2", "1">>
      [] x.kind = "int" -> DigitsOf(x.n)

\* a number in a condition: 0 and NaN are falsy
NumTruthy(x) == x.kind = "e21" \/ (x.kind = "int" /\ x.n # 0)

\* the empty string of a parameter
EmptyString(key) == IF key \in CharKeys THEN <<>> ELSE ""

\* an optional string in a condition: undefined, null and '' are falsy
Truthy(key, o) == o # None /\ o[1] # EmptyString(key)

\* String.prototype.split(','): the segments between the commas of s
RECURSIVE Split(_)
Split(s) ==
    IF \A i \in DOMAIN s : s[i] # ","
    THEN <<s>>
    ELSE LET k == CHOOSE i \in DOMAIN s : s[i] = "," /\ \A j \in 1..(i - 1) : s[j] # ","
         IN  <<SubSeq(s, 1, k - 1)>> \o Split(SubSeq(s, k + 1, Len(s)))

\* Array.prototype.join(','): the elements separated by commas
RECURSIVE Join(_)
Join(a) ==
    IF Len(a) = 0 THEN <<>>
    ELSE IF Len(a) = 1 THEN a[1]
    ELSE a[1] \o <<",">> \o Join(Tail(a))

\* DEFAULT_FILTERS
DEFAULT_FILTERS == [areaCode |-> "1", sort |-> "latest", page |-> Num(1)]

\* getParam(key): params.get(key) || undefined of a URLSearchParams, and
\* params[key] of a record
getParam(params, isUrl, key) ==
    IF isUrl /\ ~Truthy(key, params[key]) THEN None ELSE params[key]

\* parseFilterParams(params)
parseFilterParams(params, isUrl) ==
    LET get(key) == getParam(params, isUrl, key)
    IN  [areaCode |-> IF Truthy("areaCode", get("areaCode")) THEN get("areaCode")
                      ELSE Some(DEFAULT_FILTERS.areaCode),
         contentTypeId |-> get("contentTypeId"),
         sort |-> IF Truthy("sort", get("sort")) THEN get("sort") ELSE Some(DEFAULT_FILTERS.sort),
         petFriendly |-> IF get("petFriendly") = Some("true") THEN Some(TRUE) ELSE None,
         petSize |-> IF Truthy("petSize", get("petSize"))
                     THEN Some(SelectSeq(Split(get("petSize")[1]), LAMBDA seg : seg # <<>>))
                     ELSE None,
         keyword |-> get("keyword"),
         page |-> IF Truthy("page", get("page")) THEN Some(parseInt(get("page")[1]))
                  ELSE Some(DEFAULT_FILTERS.page)]

\* new URLSearchParams()
EmptyParams == [key \in FilterKeys |-> None]

\* buildFilterParams(filters, {keepDefaults})
buildFilterParams(filters, keepDefaults) ==
    [areaCode |-> IF /\ Truthy("areaCode", filters.areaCode)
                     /\ (keepDefaults \/ filters.areaCode[1] # DEFAULT_FILTERS.areaCode)
                  THEN filters.areaCode ELSE None,
     contentTypeId |-> IF Truthy("contentTypeId", filters.contentTypeId)
                       THEN filters.contentTypeId ELSE None,
     sort |-> IF /\ Truthy("sort", filters.sort)
                 /\ (keepDefaults \/ filters.sort[1] # DEFAULT_FILTERS.sort)
              THEN filters.sort ELSE None,
     petFriendly |-> IF filters.petFriendly = Some(TRUE) THEN Some("true") ELSE None,
     petSize |-> IF filters.petSize # None /\ Len(filters.petSize[1]) > 0
                 THEN Some(Join(filters.petSize[1])) ELSE None,
     keyword |-> IF Truthy("keyword", filters.keyword) THEN filters.keyword ELSE None,
     page |-> IF /\ filters.page # None
                 /\ NumTruthy(filters.page[1])
                 /\ filters.page[1] # DEFAULT_FILTERS.page
              THEN Some(NumToString(filters.page[1])) ELSE None]

\* mergeFilterParams(current, updates); updates is a function on the keys it
\* mentions (a mentioned key may hold undefined)
mergeFilterParams(current, updates) ==
    [key \in FilterKeys |->
        IF key = "petSize"
        THEN IF "petSize" \in DOMAIN updates /\ updates["petSize"] # None
             THEN IF Len(updates["petSize"][1]) > 0 THEN updates["petSize"] ELSE None
             ELSE current["petSize"]
        ELSE IF key \in DOMAIN updates THEN updates[key] ELSE current[key]]

resetFilterParams_Mut(current) ==
    [areaCode |-> Some(DEFAULT_FILTERS.areaCode),
     sort |-> Some(DEFAULT_FILTERS.sort),
     page |-> Some(DEFAULT_FILTERS.page),
     keyword |-> None]

\* resetFilterParams(current): the defaults and the current keyword
resetFilterParams(current) ==
    [areaCode |-> Some(DEFAULT_FILTERS.areaCode),
     sort |-> Some(DEFAULT_FILTERS.sort),
     page |-> Some(DEFAULT_FILTERS.page),
     keyword |-> current.keyword]

updateFilterParams_Mut(current, updates) ==
    LET out == buildFilterParams(mergeFilterParams(parseFilterParams(current, TRUE), updates), FALSE)
    IN  [key \in DOMAIN current |-> IF key \in FilterKeys THEN out[key] ELSE current[key]]

\* updateFilterParams(current, updates): the result holds the keys that
\* buildFilterParams appends to its new URLSearchParams()
updateFilterParams(current, updates) ==
    buildFilterParams(mergeFilterParams(parseFilterParams(current, TRUE), updates), FALSE)

(***************************************************************************)
(* The codec run on its inputs: a query is parsed, built, parsed and built *)
(* again; a FilterParams object is built and parsed                        *)
(***************************************************************************)
\* characters are single letters, digits and signs, and the syllables of the
\* Korean texts (romanised)
SoHyeongGyeon == <<"so", "hyeong", "gyeon">>

DaeHyeongGyeon == <<"dae", "hyeong", "gyeon">>

HaeByeon == <<"hae", "byeon">>

PageChars == {"0", "1", "2", "x"}

NonEmptySeqs(S, n) == SeqsUpTo(S, n) \ {<<>>}

\* the raw query-parameter maps the codec is run on: missing, empty, default
\* and other values of every parameter, a petSize with empty segments, a
\* page that is not a number, and a page of 22 digits
RawQueries ==
    [areaCode : {None, Some(""), Some("1"), Some("6")},
     contentTypeId : {None, Some(""), Some("39")},
     sort : {None, Some("latest"), Some("name")},
     petFriendly : {None, Some("true"), Some("false")},
     petSize : {None} \cup {Some(Join(segs)) : segs \in NonEmptySeqs({<<>>, SoHyeongGyeon}, MaxPetSizes)},
     keyword : {None, Some(<<>>), Some(HaeByeon)},
     page : {None, Some(<<>>), Some(<<"2", Zeros21>>)}
            \cup {Some(s) : s \in NonEmptySeqs(PageChars, MaxPageLen)}]

\* the FilterParams objects the codec is run on
FilterStates ==
    [areaCode : {Some("1"), Some("6")},
     contentTypeId : {None, Some("39")},
     sort : {Some("latest"), Some("name")},
     petFriendly : {None, Some(FALSE), Some(TRUE)},
     petSize : {None} \cup {Some(a) : a \in SeqsUpTo({SoHyeongGyeon, DaeHyeongGyeon}, MaxPetSizes)},
     keyword : {None, Some(<<>>), Some(HaeByeon)},
     page : {Some(Num(0)), Some(Num(1)), Some(Num(2)), Some(E21(2))}]

CodecIdle ==
    /\ cdPc = "idle"
    /\ cdQuery = None
    /\ cdFilters = None
    /\ cdBuilt = None
    /\ cdReparsed = None
    /\ cdRebuilt = None

CodecInit ==
    /\ \/ cdPc = "parse" /\ cdQuery \in {Some(q) : q \in RawQueries} /\ cdFilters = None
       \/ cdPc = "build" /\ cdQuery = None /\ cdFilters \in {Some(s) : s \in FilterStates}
    /\ cdBuilt = None
    /\ cdReparsed = None
    /\ cdRebuilt = None

\* parseFilterParams(q), q a URLSearchParams or a record
CodecParse ==
    /\ cdPc = "parse"
    /\ \E isUrl \in BOOLEAN : cdFilters' = Some(parseFilterParams(cdQuery[1], isUrl))
    /\ cdPc' = "build"
    /\ UNCHANGED <<cdQuery, cdBuilt, cdReparsed, cdRebuilt>>
    /\ UNCHANGED otherThanCodec

\* buildFilterParams(s, {keepDefaults: false})
CodecBuild ==
    /\ cdPc = "build"
    /\ cdBuilt' = Some(buildFilterParams(cdFilters[1], FALSE))
    /\ cdPc' = "reparse"
    /\ UNCHANGED <<cdQuery, cdFilters, cdReparsed, cdRebuilt>>
    /\ UNCHANGED otherThanCodec

\* parseFilterParams of the URLSearchParams built
CodecReparse ==
    /\ cdPc = "reparse"
    /\ cdReparsed' = Some(parseFilterParams(cdBuilt[1], TRUE))
    /\ cdPc' = IF cdQuery = None THEN "done" ELSE "rebuild"
    /\ UNCHANGED <<cdQuery, cdFilters, cdBuilt, cdRebuilt>>
    /\ UNCHANGED otherThanCodec

\* buildFilterParams of the result
CodecRebuild ==
    /\ cdPc = "rebuild"
    /\ cdRebuilt' = Some(buildFilterParams(cdReparsed[1], FALSE))
    /\ cdPc' = "done"
    /\ UNCHANGED <<cdQuery, cdFilters, cdBuilt, cdReparsed>>
    /\ UNCHANGED otherThanCodec

(***************************************************************************)
(* mergeFilterParams run on its inputs                                     *)
(***************************************************************************)
\* the FilterParams objects merged into
MergeCurrents ==
    [areaCode : {Some("6")},
     contentTypeId : {None, Some("39")},
     sort : {Some("latest")},
     petFriendly : {None, Some(TRUE)},
     petSize : {None, Some(<<>>), Some(<<SoHyeongGyeon>>), Some(<<SoHyeongGyeon, DaeHyeongGyeon>>)},
     keyword : {None},
     page : {Some(Num(2))}]

\* the Partial<FilterParams> objects merged: any of contentTypeId,
\* petFriendly and petSize given, each possibly as undefined
MergeUpdates ==
    {[key \in given |-> full[key]] :
        given \in SUBSET {"contentTypeId", "petFriendly", "petSize"},
        full \in [contentTypeId : {None, Some("12")},
                  petFriendly : {None, Some(FALSE)},
                  petSize : {None, Some(<<>>), Some(<<DaeHyeongGyeon>>)}]}

MergeIdle ==
    /\ mergePc = "idle"
    /\ mergeCurrent = EmptyParams
    /\ mergeUpdates = <<>>
    /\ merged = EmptyParams

\* mergeFilterParams(current, updates) is called
MergeInit ==
    /\ mergePc = "call"
    /\ mergeCurrent \in MergeCurrents
    /\ mergeUpdates \in MergeUpdates
    /\ merged = EmptyParams

\* it returns the merged object
MergeReturn ==
    /\ mergePc = "call"
    /\ merged' = mergeFilterParams(mergeCurrent, mergeUpdates)
    /\ mergePc' = "returned"
    /\ UNCHANGED <<mergeCurrent, mergeUpdates>>
    /\ UNCHANGED otherThanMerge

(***************************************************************************)
(* buildFilterParams run on its inputs, with and without buildKeepDefaults      *)
(***************************************************************************)
\* the FilterParams objects encoded: default and other values of the three
\* defaulted fields
BuildStates ==
    [areaCode : {Some("1"), Some("6")},
     contentTypeId : {None, Some("39")},
     sort : {Some("latest"), Some("name")},
     petFriendly : {None, Some(TRUE)},
     petSize : {None, Some(<<SoHyeongGyeon>>)},
     keyword : {None, Some(HaeByeon)},
     page : {Some(Num(1)), Some(Num(2))}]

BuildIdle ==
    /\ buildPc = "idle"
    /\ buildFilters = EmptyParams
    /\ buildKeepDefaults = FALSE
    /\ built = EmptyParams

\* buildFilterParams(filters, {keepDefaults}) is called
BuildInit ==
    /\ buildPc = "call"
    /\ buildFilters \in BuildStates
    /\ buildKeepDefaults \in BOOLEAN
    /\ built = EmptyParams

\* it returns the URLSearchParams
BuildReturn ==
    /\ buildPc = "call"
    /\ built' = buildFilterParams(buildFilters, buildKeepDefaults)
    /\ buildPc' = "returned"
    /\ UNCHANGED <<buildFilters, buildKeepDefaults>>
    /\ UNCHANGED otherThanBuild

(***************************************************************************)
(* The URL query as the filter panel (components/tour-filters.tsx) and the *)
(* navbar search form (components/Navbar.tsx) rewrite it                   *)
(***************************************************************************)
\* URLSearchParams.prototype.toString() of one value
FormEncode(s) ==
    [i \in DOMAIN s |-> CASE s[i] = " " -> "+"
                          [] s[i] = "&" -> "%26"
                          [] s[i] = "," -> "%2C"
                          [] OTHER -> s[i]]

\* encodeURIComponent(s)
encodeURIComponent(s) ==
    [i \in DOMAIN s |-> CASE s[i] = " " -> "%20"
                          [] s[i] = "&" -> "%26"
                          [] s[i] = "," -> "%2C"
                          [] OTHER -> s[i]]

\* the value the router's URLSearchParams reads back from the query string
FormDecode(s) ==
    [i \in DOMAIN s |-> CASE s[i] \in {"+", "%20"} -> " "
                          [] s[i] = "%26" -> "&"
                          [] s[i] = "%2C" -> ","
                          [] OTHER -> s[i]]

\* String.prototype.trim()
RECURSIVE trim(_)
trim(s) ==
    IF s = <<>> THEN s
    ELSE IF Head(s) = " " THEN trim(Tail(s))
    ELSE IF s[Len(s)] = " " THEN trim(SubSeq(s, 1, Len(s) - 1))
    ELSE s

\* the keys a URL of the home page can hold: the filters, and the tour
\* selected in the list or on the map
UrlKeys == FilterKeys \cup {"selectedTourId"}

\* params.toString(): the query string, as its encoded values by key
QueryString(params) ==
    [key \in DOMAIN params |->
        IF params[key] # None /\ key \in CharKeys THEN Some(FormEncode(params[key][1])) ELSE params[key]]

\* useSearchParams() after router.push('/?' + query)
Pushed(query) ==
    [key \in UrlKeys |->
        IF key \notin DOMAIN query THEN None
        ELSE IF query[key] # None /\ key \in CharKeys THEN Some(FormDecode(query[key][1]))
        ELSE query[key]]

\* CONTENT_TYPES[i].id
CONTENT_TYPES == <<"12", "39">>

\* PET_SIZES[i].value
PET_SIZES == <<SoHyeongGyeon, DaeHyeongGyeon>>

\* the URLs the page is opened with
UrlStates ==
    [areaCode : {None, Some("6")},
     contentTypeId : {None, Some("39")},
     sort : {None, Some("name")},
     petFriendly : {None, Some("true")},
     petSize : {None, Some(Join(<<SoHyeongGyeon>>)), Some(Join(<<SoHyeongGyeon, DaeHyeongGyeon>>))},
     keyword : {None, Some(<<>>), Some(HaeByeon)},
     page : {None, Some(<<"2">>)},
     selectedTourId : {None} \cup {Some(tourId) : tourId \in {"tour1"}}]

\* what the user can type into the search box
SearchQueries == {<<>>, <<" ">>, <<" ", "hae", "byeon", " ">>, <<"hae", "&", "byeon">>}

NoEvent == [name |-> "none", arg |-> <<>>]

Event(name, arg) == [name |-> name, arg |-> arg]

UiIdle ==
    /\ searchParams = Pushed(EmptyParams)
    /\ uiPrev = Pushed(EmptyParams)
    /\ uiEvent = NoEvent

UiInit ==
    /\ searchParams \in UrlStates
    /\ uiPrev = searchParams
    /\ uiEvent = NoEvent

\* const filterParams = parseFilterParams(searchParams)
filterParams == parseFilterParams(searchParams, TRUE)

currentAreaCode == IF Truthy("areaCode", filterParams.areaCode) THEN filterParams.areaCode[1] ELSE "1"

currentContentTypeId == IF filterParams.contentTypeId # None THEN filterParams.contentTypeId[1] ELSE ""

currentSort == IF Truthy("sort", filterParams.sort) THEN filterParams.sort[1] ELSE "latest"

currentPetFriendly == filterParams.petFriendly = Some(TRUE)

currentPetSize == IF filterParams.petSize # None THEN filterParams.petSize[1] ELSE <<>>

\* the keys of getActiveFilters(): the badges shown
ActiveFilterKeys ==
    {key \in {"areaCode", "contentTypeId", "sort", "petFriendly", "petSize"} :
        CASE key = "areaCode" -> currentAreaCode # "1"
          [] key = "contentTypeId" -> currentContentTypeId # ""
          [] key = "sort" -> currentSort # "latest"
          [] key = "petFriendly" -> currentPetFriendly
          [] key = "petSize" -> Len(currentPetSize) > 0}

\* updateParams(updates): the updates with page reset, merged into the
\* current query, pushed
updateParams(updates, event) ==
    LET updatesWithPageReset ==
            [key \in DOMAIN updates \cup {"page"} |->
                IF key = "page" THEN Some(DEFAULT_FILTERS.page) ELSE updates[key]]
        newParams == updateFilterParams(searchParams, updatesWithPageReset)
    IN  /\ searchParams' = Pushed(QueryString(newParams))
        /\ uiPrev' = searchParams
        /\ uiEvent' = event
        /\ UNCHANGED otherThanUi

handleAreaChange ==
    \E value \in {"all", "1", "6"} :
        updateParams("areaCode" :> Some(IF value = "all" THEN DEFAULT_FILTERS.areaCode ELSE value),
                     Event("handleAreaChange", value))

handleTypeChange ==
    \E i \in DOMAIN CONTENT_TYPES, checked \in BOOLEAN :
        updateParams("contentTypeId" :> (IF checked THEN Some(CONTENT_TYPES[i]) ELSE None),
                     Event("handleTypeChange", <<CONTENT_TYPES[i], checked>>))

handleSelectAll ==
    \E checked \in BOOLEAN :
        updateParams("contentTypeId" :> (IF checked THEN Some(CONTENT_TYPES[1]) ELSE None),
                     Event("handleSelectAll", checked))

handleSortChange ==
    \E value \in {"latest", "name"} :
        updateParams("sort" :> Some(value), Event("handleSortChange", value))

handlePetFriendlyChange ==
    \E checked \in BOOLEAN :
        updateParams(IF checked THEN "petFriendly" :> Some(TRUE)
                     ELSE ("petFriendly" :> Some(FALSE)) @@ ("petSize" :> None),
                     Event("handlePetFriendlyChange", checked))

\* [...new Set([...currentSizes, sizeValue])]
AddOnce(sizes, sizeValue) ==
    IF \E i \in DOMAIN sizes : sizes[i] = sizeValue THEN sizes ELSE Append(sizes, sizeValue)

\* the size checkboxes are rendered while the pet filter is on
handlePetSizeChange ==
    /\ currentPetFriendly
    /\ \E i \in DOMAIN PET_SIZES, checked \in BOOLEAN :
        LET sizeValue == PET_SIZES[i]
            newSizes == IF checked THEN AddOnce(currentPetSize, sizeValue)
                        ELSE SelectSeq(currentPetSize, LAMBDA size : size # sizeValue)
        IN  updateParams("petSize" :> (IF Len(newSizes) > 0 THEN Some(newSizes) ELSE None),
                         Event("handlePetSizeChange", <<sizeValue, checked>>))

\* the remove button of a badge
handleRemoveFilter ==
    \E filterKey \in ActiveFilterKeys :
        updateParams(CASE filterKey = "areaCode" -> "areaCode" :> Some(DEFAULT_FILTERS.areaCode)
                       [] filterKey = "contentTypeId" -> "contentTypeId" :> None
                       [] filterKey = "sort" -> "sort" :> Some(DEFAULT_FILTERS.sort)
                       [] filterKey = "petFriendly" ->
                            ("petFriendly" :> Some(FALSE)) @@ ("petSize" :> None)
                       [] filterKey = "petSize" -> "petSize" :> None,
                     Event("handleRemoveFilter", filterKey))

handleReset ==
    LET resetFilters == resetFilterParams(filterParams)
        params == updateFilterParams(EmptyParams, resetFilters)
    IN  /\ searchParams' = Pushed(QueryString(params))
        /\ uiPrev' = searchParams
        /\ uiEvent' = Event("handleReset", <<>>)
        /\ UNCHANGED otherThanUi

\* Navbar.handleSearch: the form is submitted with searchQuery typed
handleSearch ==
    \E searchQuery \in SearchQueries :
        /\ IF trim(searchQuery) # <<>>
           THEN searchParams' =
                    Pushed([EmptyParams EXCEPT !.keyword = Some(encodeURIComponent(trim(searchQuery)))])
           ELSE searchParams' = searchParams
        /\ uiPrev' = searchParams
        /\ uiEvent' = Event("handleSearch", searchQuery)
        /\ UNCHANGED otherThanUi

\* the contentid of the cards and markers that can be clicked
SelectableTours == {"tour1"}

\* TourListWithMap.handleTourClick and handleMarkerClick: the current query
\* with selectedTourId set
handleTourClick ==
    \E tourId \in SelectableTours :
        LET params == [Pushed(QueryString(searchParams)) EXCEPT !.selectedTourId = Some(tourId)]
        IN  /\ searchParams' = Pushed(QueryString(params))
            /\ uiPrev' = searchParams
            /\ uiEvent' = Event("handleTourClick", tourId)
            /\ UNCHANGED otherThanUi

(***************************************************************************)
(* lib/utils/sort.ts                                                       *)
(***************************************************************************)
\* a modifiedtime string: an ISO 8601 date-time ('2024-03-01T09:00:00Z'), or
\* the 14 digits the upstream writes ('20240301090000'); t orders the instants
TimeString(format, t) == [format |-> format, t |-> t]

TimeStrings == {TimeString(f, t) : f \in {"iso", "compact"}, t \in 1..2}

\* the TourItems sorted: a title (as its rank in the Korean collation) and an
\* optional modifiedtime
SortItems == [title : 1..2, modifiedtime : {None} \cup {Some(ts) : ts \in TimeStrings}]

\* new Date(modifiedtime || 0).getTime(): 0 for a missing timestamp, the
\* instant of an ISO string, NaN for a string Date.parse does not accept
\* (a year of 14 digits is out of the range of Date)
getTime(item) ==
    IF item.modifiedtime = None THEN Num(0)
    ELSE IF item.modifiedtime[1].format = "iso" THEN Num(item.modifiedtime[1].t)
    ELSE NaN

\* the comparator of sortToursByLatest, as Array.prototype.sort reads it:
\* timeB - timeA, a NaN result counting as +0
compareLatest(a, b) ==
    IF getTime(a).kind = "nan" \/ getTime(b).kind = "nan" THEN 0
    ELSE getTime(b).n - getTime(a).n

\* the comparator of sortToursByName: titleA.localeCompare(titleB, 'ko')
compareName(a, b) == a.title - b.title

compare(option, a, b) ==
    IF option = "name" THEN compareName(a, b) ELSE compareLatest(a, b)

\* the comparator is a consistent comparator for the items (ECMAScript,
\* Array.prototype.sort): equality and order are transitive
Consistent(option, items) ==
    \A a, b, c \in items :
        /\ (compare(option, a, b) = 0 /\ compare(option, b, c) = 0)
              => compare(option, a, c) = 0
        /\ (compare(option, a, b) < 0 /\ compare(option, b, c) < 0)
              => compare(option, a, c) < 0
        /\ (compare(option, a, b) > 0 /\ compare(option, b, c) > 0)
              => compare(option, a, c) > 0
        /\ (compare(option, a, b) = 0 /\ compare(option, b, c) < 0)
              => compare(option, a, c) < 0
        /\ (compare(option, a, b) = 0 /\ compare(option, b, c) > 0)
              => compare(option, a, c) > 0

\* x put into a sorted sequence behind every element that does not sort
\* after it
InsertSorted(option, acc, x) ==
    LET k == Cardinality({i \in DOMAIN acc : compare(option, acc[i], x) <= 0})
    IN  SubSeq(acc, 1, k) \o <<x>> \o SubSeq(acc, k + 1, Len(acc))

\* the stable sort of a sequence under a consistent comparator
RECURSIVE StableSort(_, _)
StableSort(option, tours) ==
    IF tours = <<>> THEN <<>>
    ELSE InsertSorted(option, StableSort(option, SubSeq(tours, 1, Len(tours) - 1)),
                      tours[Len(tours)])

\* the rearrangements of a sequence
Rearrangements(tours) ==
    {[i \in DOMAIN tours |-> tours[p[i]]] : p \in Permutations(DOMAIN tours)}

\* [...tours].sort(comparator): the stable sort when the comparator is
\* consistent, an implementation-defined order of the elements otherwise
SortOutcomes(option, tours) ==
    IF Consistent(option, Range(tours))
    THEN {StableSort(option, tours)}
    ELSE Rearrangements(tours)

SortIdle ==
    /\ sortPc = "idle"
    /\ sortOption = "latest"
    /\ sortArg = <<>>
    /\ sorted = <<>>

\* sortTours(tours, sortOption) is called
SortInit ==
    /\ sortPc = "call"
    /\ sortOption \in {"latest", "name"}
    /\ sortArg \in SeqsUpTo(SortItems, MaxSortLen)
    /\ sorted = <<>>

\* sortTours returns the sorted copy; the argument is not written
SortReturn ==
    /\ sortPc = "call"
    /\ sorted' \in SortOutcomes(sortOption, sortArg)
    /\ sortPc' = "returned"
    /\ UNCHANGED <<sortOption, sortArg>>
    /\ UNCHANGED otherThanSort

(***************************************************************************)
(* Specifications                                                          *)
(***************************************************************************)
InitEnrich ==
    /\ EnrichInit
    /\ HookIdle
    /\ RetryIdle
    /\ PetIdle
    /\ CodecIdle
    /\ UiIdle
    /\ SortIdle
    /\ MatchIdle
    /\ MergeIdle
    /\ BuildIdle
    /\ ListIdle

NextEnrich ==
    \/ EnrichList
    \/ LookupSettle
    \/ EnrichCollect

SpecEnrich == InitEnrich /\ [][NextEnrich]_vars

InitRetry ==
    /\ RetryInit
    /\ HookIdle
    /\ EnrichIdle
    /\ PetIdle
    /\ CodecIdle
    /\ UiIdle
    /\ SortIdle
    /\ MatchIdle
    /\ MergeIdle
    /\ BuildIdle
    /\ ListIdle

NextRetry ==
    \/ RetryAttempt
    \/ RetryBackoff

SpecRetry == InitRetry /\ [][NextRetry]_vars

InitPet ==
    /\ PetInit
    /\ HookIdle
    /\ RetryIdle
    /\ EnrichIdle
    /\ CodecIdle
    /\ UiIdle
    /\ SortIdle
    /\ MatchIdle
    /\ MergeIdle
    /\ BuildIdle
    /\ ListIdle

NextPet ==
    \/ PetCall
    \/ RetryAttempt
    \/ RetryBackoff
    \/ PetReturn
    \/ PetThrown

SpecPet == InitPet /\ [][NextPet]_vars

InitCodec ==
    /\ CodecInit
    /\ HookIdle
    /\ RetryIdle
    /\ EnrichIdle
    /\ PetIdle
    /\ UiIdle
    /\ SortIdle
    /\ MatchIdle
    /\ MergeIdle
    /\ BuildIdle
    /\ ListIdle

NextCodec ==
    \/ CodecParse
    \/ CodecBuild
    \/ CodecReparse
    \/ CodecRebuild

SpecCodec == InitCodec /\ [][NextCodec]_vars

InitSort ==
    /\ SortInit
    /\ HookIdle
    /\ RetryIdle
    /\ EnrichIdle
    /\ PetIdle
    /\ CodecIdle
    /\ UiIdle
    /\ MatchIdle
    /\ MergeIdle
    /\ BuildIdle
    /\ ListIdle

NextSort == SortReturn

SpecSort == InitSort /\ [][NextSort]_vars

InitMatch ==
    /\ MatchInit
    /\ HookIdle
    /\ RetryIdle
    /\ EnrichIdle
    /\ PetIdle
    /\ CodecIdle
    /\ UiIdle
    /\ SortIdle
    /\ MergeIdle
    /\ BuildIdle
    /\ ListIdle

NextMatch == MatchReturn

SpecMatch == InitMatch /\ [][NextMatch]_vars

InitMerge ==
    /\ MergeInit
    /\ HookIdle
    /\ RetryIdle
    /\ EnrichIdle
    /\ PetIdle
    /\ CodecIdle
    /\ UiIdle
    /\ SortIdle
    /\ MatchIdle
    /\ BuildIdle
    /\ ListIdle

NextMerge == MergeReturn

SpecMerge == InitMerge /\ [][NextMerge]_vars

InitBuild ==
    /\ BuildInit
    /\ HookIdle
    /\ RetryIdle
    /\ EnrichIdle
    /\ PetIdle
    /\ CodecIdle
    /\ UiIdle
    /\ SortIdle
    /\ MatchIdle
    /\ MergeIdle
    /\ ListIdle

NextBuild == BuildReturn

SpecBuild == InitBuild /\ [][NextBuild]_vars

InitList ==
    /\ ListInit
    /\ HookIdle
    /\ RetryIdle
    /\ EnrichIdle
    /\ PetIdle
    /\ CodecIdle
    /\ UiIdle
    /\ SortIdle
    /\ MatchIdle
    /\ MergeIdle
    /\ BuildIdle

NextList == ListReturn

SpecList == InitList /\ [][NextList]_vars

InitFilter ==
    /\ UiInit
    /\ HookIdle
    /\ RetryIdle
    /\ EnrichIdle
    /\ PetIdle
    /\ CodecIdle
    /\ SortIdle
    /\ MatchIdle
    /\ MergeIdle
    /\ BuildIdle
    /\ ListIdle

NextFilter ==
    \/ handleAreaChange
    \/ handleTypeChange
    \/ handleSelectAll
    \/ handleSortChange
    \/ handlePetFriendlyChange
    \/ handlePetSizeChange
    \/ handleRemoveFilter
    \/ handleReset
    \/ handleSearch
    \/ handleTourClick

SpecFilter == InitFilter /\ [][NextFilter]_vars

Init ==
    /\ HookInit
    /\ RetryIdle
    /\ EnrichIdle
    /\ PetIdle
    /\ CodecIdle
    /\ UiIdle
    /\ SortIdle
    /\ MatchIdle
    /\ MergeIdle
    /\ BuildIdle
    /\ ListIdle

Next ==
    \/ Render
    \/ LoadMoreNoop
    \/ LoadMoreStart
    \/ LoadMoreSuccess
    \/ LoadMoreFailure
    \/ Reset

Spec == Init /\ [][Next]_vars

\* the awaited loadMoreTours call of a loadMore() settles (retryRequest gives
\* up after maxRetries retries, and the server action rethrows), and React
\* re-renders the hook after a state update
Fairness ==
    /\ WF_vars(LoadMoreSuccess \/ LoadMoreFailure)
    /\ WF_vars(Render)

SpecLive == Init /\ [][Next]_vars /\ Fairness

(***************************************************************************)
(* Claims about useInfiniteTours (specification Spec)                      *)
(***************************************************************************)

\* C1: a loadMore() invoked while a page request is pending issues no
\* request: at most one loadMoreTours request is in flight at any time.
C1_AtMostOneInFlight == Cardinality(inflight) <= 1

\* C2: after a reset, the accumulated items come only from the new initial
\* page and from requests started after that reset; a request started before
\* the reset does not change the accumulator when it completes after it.
C2_NoStaleMixing ==
    /\ \A i \in DOMAIN allTours : allTours[i].gen = gen
    /\ last.name = "success" => last.req.gen = gen

\* the step is the completion of a rejected request
IsFailureStep == last'.name = "failure" /\ inflight' # inflight

\* C3: when the page request of loadMore() fails, error is that failure,
\* isLoading is false and items, petInfoMap, currentPage and totalCount are
\* untouched (they are as when loadMore() was called if nothing else changed
\* them meanwhile), so that the next loadMore() asks for the same page again.
C3_FailedLoadKeepsPages ==
    [][IsFailureStep =>
        /\ error'.name = "Error" /\ error'.req = last'.req.id
        /\ isLoading' = FALSE
        /\ allTours' = allTours
        /\ petInfoMap' = petInfoMap
        /\ currentPage' = currentPage
        /\ totalCount' = totalCount
        /\ \A q \in inflight \ inflight' :
              /\ ~q.dirty => <<allTours', petInfoMap', currentPage', totalCount'>> = q.snap
              /\ (~q.dirty /\ q.fresh) => currentPage' + 1 = q.pageNo
      ]_vars

\* a later page failed while pages were loaded
C3_Witness ==
    /\ last.name = "failure"
    /\ error.name = "Error"
    /\ ~isLoading
    /\ currentPage = 2
    /\ Len(allTours) >= 1
    /\ last.req.pageNo = currentPage + 1

\* C4: right after reset(newData) the accumulator is newData and nothing
\* else: items, map, page 1, totalCount, no error, not loading, and hasMore
\* (once rendered) is 1 * 20 < newData.initialTotalCount.
C4_ResetPostState ==
    last.name = "reset" =>
        /\ allTours = last.payload.initialTours
        /\ \A i \in DOMAIN allTours : allTours[i].gen = gen
        /\ petInfoMap = last.payload.initialPetInfoMap
        /\ currentPage = 1
        /\ totalCount = last.payload.initialTotalCount
        /\ error = NoFailure
        /\ isLoading = FALSE
        /\ (render.currentPage = currentPage /\ render.totalCount = totalCount)
              => (render.hasMore <=> 1 * 20 < last.payload.initialTotalCount)

\* a reset applied while a page request was pending, rendered
C4_Witness ==
    /\ last.name = "reset"
    /\ inflight # {}
    /\ render.currentPage = currentPage /\ render.totalCount = totalCount
    /\ render.hasMore
    /\ ~render.isLoading

\* the step is the completion of a fulfilled request
IsSuccessStep == last'.name = "success" /\ inflight' # inflight

\* C5: a successful page request appends the returned items after the
\* previous ones, overrides the map with the returned entries, raises
\* currentPage by exactly 1 and stores the returned totalCount.
C5_SuccessEffect ==
    [][IsSuccessStep =>
        /\ allTours' = allTours \o last'.payload.items
        /\ \A c \in DOMAIN petInfoMap' :
              petInfoMap'[c] = IF c \in DOMAIN last'.payload.petInfoMap
                               THEN last'.payload.petInfoMap[c] ELSE petInfoMap[c]
        /\ DOMAIN petInfoMap' = DOMAIN petInfoMap \cup DOMAIN last'.payload.petInfoMap
        /\ currentPage' = currentPage + 1
        /\ totalCount' = last'.payload.totalCount
      ]_vars

\* the step is a call of loadMore()
IsLoadMoreCall == last'.name \in {"loadMoreNoop", "loadMoreStart"} /\ last' # last

\* C6: the exposed hasMore is currentPage * 20 < totalCount of the same
\* render, and a loadMore() called while it is false issues no request and
\* changes no state.
C6_HasMoreDerived ==
    /\ [](render.hasMore <=> render.currentPage * 20 < render.totalCount)
    /\ [][(IsLoadMoreCall /\ ~render.hasMore) =>
            /\ inflight' = inflight
            /\ issued' = issued
            /\ <<allTours', petInfoMap', currentPage', totalCount', isLoading', error'>>
                 = <<allTours, petInfoMap, currentPage, totalCount, isLoading, error>>
         ]_vars

\* loadMore() was called at the end of the list: nothing more to load, not loading
C6_Witness ==
    /\ last.name = "loadMoreNoop"
    /\ ~render.hasMore
    /\ ~render.isLoading
    /\ render.currentPage * 20 >= render.totalCount
    /\ render.currentPage = 2

\* C19: whenever loadMore() has set isLoading, a state with isLoading false
\* is eventually reached (the request having settled), whether the request
\* succeeded or failed.
C19_LoadReturnsToIdle == isLoading ~> ~isLoading

\* a load that failed has cleared isLoading and recorded its error
C19_Witness ==
    /\ ~isLoading
    /\ last.name = "failure"
    /\ error.name = "Error"

\* C28: isLoading is true exactly while a loadMoreTours request of the hook
\* is outstanding.
C28_LoadingMirrorsRequest == isLoading <=> inflight # {}

\* C29: the items are the initial page followed by the results of pages
\* 2..currentPage of the current configuration, each appended once and in
\* page order (a page result of the model holds at most one item, so the
\* page numbers of the items increase strictly).
C29_PageCountsAppends ==
    /\ \A i \in DOMAIN allTours :
          /\ allTours[i].gen = gen
          /\ allTours[i].page \in 1..currentPage
    /\ \A i, j \in DOMAIN allTours : i < j => allTours[i].page < allTours[j].page

\* C27: after a loadMore() failed with at least one page loaded, the list
\* still shows every accumulated item, with a retry affordance; the error
\* view does not replace the list.
C27_LaterFailureNonBlocking ==
    (error # NoFailure /\ allTours # <<>>) =>
        /\ Rendered.view = "list"
        /\ Rendered.cards = allTours
        /\ Rendered.showRetry

(***************************************************************************)
(* Claims about the enrichment stage (specification SpecEnrich)            *)
(***************************************************************************)

Distinct(seq) == \A i, j \in DOMAIN seq : seq[i] = seq[j] => i = j

\* C7: with petFriendly on and distinct contentIds, whichever lookups throw,
\* the stage does not fail and the map has exactly one entry per item of the
\* page: null for a lookup that threw, the looked-up value otherwise.
C7_EnrichmentResilient ==
    /\ enPc = "failed" => enLookup = <<>>
    /\ (enPc = "done" /\ enPetFriendly /\ Distinct(enTours)) =>
          /\ DOMAIN enMap = {enTours[i] : i \in DOMAIN enTours}
          /\ Cardinality(DOMAIN enMap) = Len(enTours)
          /\ \A i \in DOMAIN enTours :
                enMap[enTours[i]] = IF enLookup[i].kind = "throw" THEN None ELSE enLookup[i].petInfo

\* a full page of distinct items of which exactly one lookup threw
C7_Witness ==
    /\ enPc = "done"
    /\ enPetFriendly
    /\ Len(enTours) = 3
    /\ Distinct(enTours)
    /\ Cardinality({i \in DOMAIN enLookup : enLookup[i].kind = "throw"}) = 1
    /\ Cardinality({i \in DOMAIN enLookup : enLookup[i].kind = "return" /\ enLookup[i].petInfo # None}) = 2
    /\ Cardinality(DOMAIN enMap) = 3

\* the PetInfo the lookup of the i-th item of the page resolved to: absent
\* when the lookup threw or found none
Resolved(i) == IF enLookup[i].kind = "return" THEN enLookup[i].petInfo ELSE None

\* the i-th item passes the pet filter asked for
Retained(i) ==
    /\ Resolved(i) # None
    /\ Resolved(i)[1].chkpetleash = Some("Y")
    /\ enPetSize # <<>> => matchesPetSizeFilter(Resolved(i), enPetSize)

\* the increasing sequence of the elements of a set of indices
RECURSIVE Ascending(_)
Ascending(S) ==
    IF S = {} THEN <<>>
    ELSE LET hi == CHOOSE x \in S : \A y \in S : y <= x
         IN  Append(Ascending(S \ {hi}), hi)

Is5xx(o) == o.kind = "http" /\ o.status >= 500 /\ o.status <= 599

\* C8: a 5xx response is retried like a timeout or a network failure, until
\* success or until the retries are used up: while retries are left, an
\* attempt that ended with a 5xx status does not end the call with an error.
C8_Retries5xx ==
    (Is5xx(lastOutcome) /\ retryCount < 3) => retryPc # "thrown"

\* C9 as stated: at most 3 HTTP attempts in total.
C9_AtMostThreeAttempts == attempts <= 3

IsPrefix(s, t) == Len(s) <= Len(t) /\ \A i \in DOMAIN s : s[i] = t[i]

\* the last attempt ended in a failure the code retries
EndedRetryable ==
    \/ lastOutcome.kind = "abort"
    \/ lastOutcome.kind = "network" /\ \E i \in DOMAIN lastOutcome.message : lastOutcome.message[i] = "fetch"

\* C9 amended: at most 4 HTTP attempts (the first and 3 retries, after waits
\* of 1, 2 and 4 seconds); when every attempt failed retryably the call ends
\* after the 4th attempt by throwing a TourApiError.
C9_BoundedRetry ==
    /\ attempts <= 4
    /\ IsPrefix(delays, <<1000, 2000, 4000>>)
    /\ retryPc = "backoff" => (attempts <= 3 /\ waiting = <<1000, 2000, 4000>>[attempts])
    /\ attempts <= Len(delays) + 1
    /\ (attempts = 4 /\ retryPc # "fetch") => retryPc \in {"returned", "thrown"}
    /\ (retryPc = "thrown" /\ EndedRetryable) =>
          /\ attempts = 4
          /\ delays = <<1000, 2000, 4000>>
          /\ thrown.name = "TourApiError"

\* every attempt timed out or failed on the network: the call gave up
C9_Witness ==
    /\ retryPc = "thrown"
    /\ EndedRetryable
    /\ attempts = 4
    /\ delays = <<1000, 2000, 4000>>

\* the last attempt ended with a 4xx status, a body that cannot be parsed or
\* lacks the header, or a result code other than '0000'
EndedNonRetriable ==
    /\ lastOutcome.kind = "http"
    /\ \/ lastOutcome.status >= 400 /\ lastOutcome.status <= 499
       \/ /\ lastOutcome.status >= 200 /\ lastOutcome.status <= 299
          /\ \/ lastOutcome.body.shape \in {"notJson", "jsonNull", "noHeader"}
             \/ lastOutcome.body.shape = "header" /\ lastOutcome.body.resultCode # "0000"

\* C10: a 4xx status, an unparseable or header-less body, or a result code
\* other than '0000' ends the call with a TourApiError after that attempt,
\* whatever the message text.
C10_NonRetriableSurfaced ==
    EndedNonRetriable => (retryPc = "thrown" /\ thrown.name = "TourApiError")

(***************************************************************************)
(* Claims about getDetailPetTour (specification SpecPet)                   *)
(***************************************************************************)

\* the call has ended
PetEnded == petPc \in {"returned", "threw"}

\* the last response carried result code '0003' under a 2xx status
Reports0003 ==
    /\ lastOutcome.kind = "http"
    /\ Ok(lastOutcome.status)
    /\ lastOutcome.body.shape = "header"
    /\ lastOutcome.body.resultCode = "0003"

\* the call ended without a response of result code '0000' or '0003': no API
\* key, a timeout or network failure, a 4xx or 5xx status, a body that is
\* not a result, or another result code
OtherFailure ==
    \/ ~petKey
    \/ lastOutcome.kind \in {"abort", "network"}
    \/ /\ lastOutcome.kind = "http"
       /\ ~(lastOutcome.body.shape = "header" /\ lastOutcome.body.resultCode \in {"0000", "0003"})

\* C11: getDetailPetTour returns null when the upstream reports result code
\* '0003', and throws for every other failure; no other failure is turned
\* into a null result.
C11_NotFoundIsAbsent ==
    PetEnded =>
        /\ Reports0003 => (petPc = "returned" /\ petValue = Null)
        /\ OtherFailure => (petPc = "threw" /\ petError.name # "none")

(***************************************************************************)
(* Claims about extractItems in getAreaBasedList / searchKeyword           *)
(* (specification SpecList)                                                *)
(***************************************************************************)

\* the items a response body carries, in order
Carried(body) ==
    CASE body.shape = "array" -> body.many
      [] body.shape = "single" -> <<body.one>>
      [] OTHER -> <<>>

\* C26: the list returned holds exactly the items the response carries, in
\* order, whether they come as an array or as one bare object; no element
\* is undefined, and a response carrying no item gives the empty list.
C26_ShapeNormalized ==
    listPc = "returned" =>
        /\ listResult.items = Carried(listBody)
        /\ \A i \in DOMAIN listResult.items : listResult.items[i] # Undefined
        /\ Carried(listBody) = <<>> => listResult.items = <<>>

(***************************************************************************)
(* Claims about the filter codec (specification SpecCodec)                 *)
(***************************************************************************)

\* the defaults the claims document for the fields of a FilterState
DocumentedDefaults ==
    [areaCode |-> Some("1"), contentTypeId |-> None, sort |-> Some("latest"),
     petFriendly |-> Some(FALSE), petSize |-> None, keyword |-> None, page |-> Some(Num(1))]

\* every field the encoder omits carries its documented default
UsesDefaults(s) ==
    \A key \in FilterKeys :
        buildFilterParams(s, FALSE)[key] = None => s[key] = DocumentedDefaults[key]

\* C13: for every FilterState s whose omitted fields carry their documented
\* defaults, parseFilterParams(buildFilterParams(s, keepDefaults = false))
\* equals s field by field.
C13_RoundTrip ==
    (cdPc = "done" /\ cdQuery = None /\ UsesDefaults(cdFilters[1])) =>
        \A key \in FilterKeys : cdReparsed[1][key] = cdFilters[1][key]

\* C14: for every raw query q, build(parse(build(parse(q)))) = build(parse(q)),
\* and build(parse(q)) holds no parameter with its documented default value
\* (nor an empty one).
C14_FixedPoint ==
    (cdPc = "done" /\ cdQuery # None) =>
        /\ cdRebuilt = cdBuilt
        /\ cdBuilt[1].areaCode # Some("1")
        /\ cdBuilt[1].sort # Some("latest")
        /\ cdBuilt[1].petFriendly # Some("false")
        /\ cdBuilt[1].page # Some(<<"1">>)
        /\ \A key \in FilterKeys : cdBuilt[1][key] # Some(EmptyString(key))

\* a query has been decoded by parseFilterParams
Decoded == cdQuery # None /\ cdFilters # None

\* C23: the decoded page is an integer >= 1, and it is the default 1 when
\* the page parameter is missing or does not parse as a base-10 integer.
C23_PageIsValid ==
    Decoded =>
        LET page == cdFilters[1].page
            raw == cdQuery[1].page
        IN  /\ page # None
            /\ page[1].kind \in {"int", "e21"}
            /\ page[1].n >= 1
            /\ (raw = None \/ parseInt(raw[1]) = NaN) => page[1] = Num(1)

\* C24: the decoded petSize is absent or a non-empty list without an empty
\* string; a raw value without a non-empty segment decodes to absent.
C24_PetSizeAbsentOrNonEmpty ==
    Decoded =>
        LET petSize == cdFilters[1].petSize
            raw == cdQuery[1].petSize
        IN  /\ petSize # None =>
                  /\ Len(petSize[1]) > 0
                  /\ \A i \in DOMAIN petSize[1] : petSize[1][i] # <<>>
            /\ (raw # None /\ \A i \in DOMAIN raw[1] : raw[1][i] = ",") => petSize = None

(***************************************************************************)
(* Claims about the URL query under the UI events (specification           *)
(* SpecFilter)                                                             *)
(***************************************************************************)

FilterFields == {"areaCode", "contentTypeId", "sort", "petFriendly", "petSize"}

\* the last event was the submission of a non-empty search
IsSearch == uiEvent.name = "handleSearch" /\ trim(uiEvent.arg) # <<>>

\* C12: submitting a non-empty keyword k keeps every filter of the URL, sets
\* keyword = k and resets page; with areaCode=6 and contentTypeId=39 the URL
\* becomes exactly areaCode=6&contentTypeId=39&keyword=k.
C12_SearchKeepsFilters ==
    IsSearch =>
        /\ \A key \in FilterFields :
              parseFilterParams(searchParams, TRUE)[key] = parseFilterParams(uiPrev, TRUE)[key]
        /\ searchParams.keyword = Some(trim(uiEvent.arg))
        /\ searchParams.page = None
        /\ (\A key \in FilterKeys :
                uiPrev[key] = (CASE key = "areaCode" -> Some("6")
                                 [] key = "contentTypeId" -> Some("39")
                                 [] OTHER -> None))
              => \A key \in FilterKeys :
                    searchParams[key] = (CASE key = "areaCode" -> Some("6")
                                           [] key = "contentTypeId" -> Some("39")
                                           [] key = "keyword" -> Some(trim(uiEvent.arg))
                                           [] OTHER -> None)

\* C18 as stated: after the filter reset the URL has no areaCode,
\* contentTypeId, sort, petFriendly, petSize or page, and it has keyword,
\* with its previous value, iff it had keyword before.
C18_ResetPreservesSearch ==
    uiEvent.name = "handleReset" =>
        /\ \A key \in FilterFields \cup {"page"} : searchParams[key] = None
        /\ searchParams.keyword # None <=> uiPrev.keyword # None
        /\ uiPrev.keyword # None => searchParams.keyword = uiPrev.keyword

\* C18 amended: after the filter reset the URL has no areaCode,
\* contentTypeId, sort, petFriendly, petSize or page, and it has keyword,
\* with its previous value, iff it had a non-empty keyword before (an empty
\* keyword parameter is dropped).
C18_ResetKeepsNonEmptyKeyword ==
    uiEvent.name = "handleReset" =>
        /\ \A key \in FilterFields \cup {"page"} : searchParams[key] = None
        /\ searchParams.keyword # None <=> Truthy("keyword", uiPrev.keyword)
        /\ Truthy("keyword", uiPrev.keyword) => searchParams.keyword = uiPrev.keyword

\* the filters of a search were reset: every filter was set, the keyword stays
C18_Witness ==
    /\ uiEvent.name = "handleReset"
    /\ \A key \in FilterFields \cup {"page"} : uiPrev[key] # None
    /\ uiPrev.keyword = Some(HaeByeon)
    /\ searchParams.keyword = Some(HaeByeon)
    /\ \A key \in FilterKeys \ {"keyword"} : searchParams[key] = None

\* C20: from a URL with petFriendly=true and a non-empty petSize, switching
\* the pet toggle off or removing the pet badge gives a URL with neither
\* petFriendly nor petSize; removing the petSize badge gives a URL without
\* petSize.
C20_PetOffClearsSize ==
    LET toggledOff == uiEvent.name = "handlePetFriendlyChange" /\ uiEvent.arg = FALSE
        petBadgeRemoved == uiEvent.name = "handleRemoveFilter" /\ uiEvent.arg = "petFriendly"
        sizeBadgeRemoved == uiEvent.name = "handleRemoveFilter" /\ uiEvent.arg = "petSize"
        wasOnWithSize == uiPrev.petFriendly = Some("true") /\ Truthy("petSize", uiPrev.petSize)
    IN  /\ ((toggledOff \/ petBadgeRemoved) /\ wasOnWithSize) =>
              (searchParams.petFriendly = None /\ searchParams.petSize = None)
        /\ sizeBadgeRemoved => searchParams.petSize = None

\* the set of sizes the petSize parameter of a URL decodes to
SizesOf(params) ==
    LET petSize == parseFilterParams(params, TRUE).petSize
    IN  IF petSize = None THEN {} ELSE Range(petSize[1])

\* C21: checking the size v gives a URL whose sizes are those before with v,
\* without duplicates; unchecking v gives a URL whose sizes are those before
\* without v, and no petSize parameter when none is left.
C21_SizeToggle ==
    uiEvent.name = "handlePetSizeChange" =>
        LET v == uiEvent.arg[1]
            checked == uiEvent.arg[2]
            after == parseFilterParams(searchParams, TRUE).petSize
        IN  /\ checked => SizesOf(searchParams) = SizesOf(uiPrev) \cup {v}
            /\ ~checked => SizesOf(searchParams) = SizesOf(uiPrev) \ {v}
            /\ after # None => \A i, j \in DOMAIN after[1] : after[1][i] = after[1][j] => i = j
            /\ SizesOf(searchParams) = {} => searchParams.petSize = None

\* the handlers of TourFilters that go through updateParams
FilterChangeEvents ==
    {"handleAreaChange", "handleTypeChange", "handleSelectAll", "handleSortChange",
     "handlePetFriendlyChange", "handlePetSizeChange", "handleRemoveFilter"}

\* C30: the result of updateFilterParams holds filter keys only, whatever the
\* current query; the URL pushed by a filter change or by the reset carries no
\* other key of the query before, selectedTourId in particular, and the URL
\* pushed by a filter change through updateParams has no page parameter
C30_OnlyFilterKeys ==
    /\ \A updates \in {<<>>, "page" :> Some(Num(2))} :
          LET result == updateFilterParams(searchParams, updates)
          IN  \A key \in DOMAIN result : result[key] # None => key \in FilterKeys
    /\ uiEvent.name \in FilterChangeEvents \cup {"handleReset"} =>
          \A key \in UrlKeys \ FilterKeys : searchParams[key] = None
    /\ uiEvent.name \in FilterChangeEvents => searchParams.page = None

\* a filter is changed on a URL with a selected tour and a page: both are gone
C30_Witness ==
    /\ uiEvent.name = "handleSortChange"
    /\ uiPrev.selectedTourId = Some("tour1")
    /\ uiPrev.page = Some(<<"2">>)
    /\ searchParams.selectedTourId = None
    /\ searchParams.page = None
    /\ searchParams.sort = Some("name")

(***************************************************************************)
(* Claims about mergeFilterParams (specification SpecMerge)                *)
(***************************************************************************)

\* C22: the merged object has every field given in updates with the value
\* given and every other field of current; petSize given empty, or given as
\* undefined, comes out absent, given non-empty it replaces the current one,
\* and not given it stays as in current.
C22_MergeOverlays ==
    mergePc = "returned" =>
        \A key \in FilterKeys :
            merged[key] =
                IF key \notin DOMAIN mergeUpdates THEN mergeCurrent[key]
                ELSE IF key = "petSize" /\ mergeUpdates[key] = Some(<<>>) THEN None
                ELSE mergeUpdates[key]

(***************************************************************************)
(* Claims about buildFilterParams (specification SpecBuild)                *)
(***************************************************************************)

\* C25: for areaCode, sort and page, without keepDefaults the parameter is
\* left out exactly when the value is the documented default ('1',
\* 'latest', 1); with keepDefaults it is written with its value, the default
\* included.
C25_KeepDefaults ==
    buildPc = "returned" =>
        LET isDefault(key) == buildFilters[key] = Some(DEFAULT_FILTERS[key])
            written(key) == IF key = "page" THEN Some(NumToString(buildFilters[key][1]))
                            ELSE buildFilters[key]
        IN  \A key \in {"areaCode", "sort", "page"} :
                /\ ~buildKeepDefaults => (built[key] = None <=> isDefault(key))
                /\ ~buildKeepDefaults => (built[key] # None => built[key] = written(key))
                /\ buildKeepDefaults => built[key] = written(key)

(***************************************************************************)
(* Claims about sortTours (specification SpecSort)                         *)
(***************************************************************************)

\* the last-modified timestamp of an item, a missing one counting as 0
Timestamp(item) == IF item.modifiedtime = None THEN 0 ELSE item.modifiedtime[1].t

\* C17: sortTours(items, 'latest') leaves items as it is and returns a
\* permutation of it in descending order of timestamp (a missing timestamp
\* counting as 0), items of equal timestamp in their input order.
C17_SortByLatest ==
    /\ [][sortArg' = sortArg]_vars
    /\ []((sortPc = "returned" /\ sortOption = "latest") =>
            /\ Len(sorted) = Len(sortArg)
            /\ \E p \in Permutations(DOMAIN sortArg) :
                  /\ \A i \in DOMAIN sorted : sorted[i] = sortArg[p[i]]
                  /\ \A i, j \in DOMAIN sorted :
                        i < j => \/ Timestamp(sorted[i]) > Timestamp(sorted[j])
                                 \/ Timestamp(sorted[i]) = Timestamp(sorted[j]) /\ p[i] < p[j])

(***************************************************************************)
(* Claims about matchesPetSizeFilter (specification SpecMatch)             *)
(***************************************************************************)

\* two characters are the same letter, whatever their case
SameLetter(c, d) ==
    \/ c = d
    \/ {c, d} = {"s", "S"}
    \/ {c, d} = {"m", "M"}

\* part occurs in whole, case ignored
ContainsIgnoringCase(whole, part) ==
    \E k \in 0..(Len(whole) - Len(part)) :
        \A i \in DOMAIN part : SameLetter(whole[k + i], part[i])

\* C16: for a non-empty list of tokens, matchesPetSizeFilter is true exactly
\* when the info is present, its leash flag is 'Y', its size class is present
\* and non-empty, and some token contains the size class or is contained in
\* it, case ignored.
C16_SizeSubFilter ==
    (matchPc = "returned" /\ matchSizes # <<>>) =>
        (matchResult <=>
            /\ matchInfo # None
            /\ matchInfo[1].chkpetleash = Some("Y")
            /\ matchInfo[1].chkpetsize # None
            /\ matchInfo[1].chkpetsize[1] # <<>>
            /\ \E i \in DOMAIN matchSizes :
                  \/ ContainsIgnoringCase(matchInfo[1].chkpetsize[1], matchSizes[i])
                  \/ ContainsIgnoringCase(matchSizes[i], matchInfo[1].chkpetsize[1]))

\* the size class 'so hyeong' asked for with the longer token 'so hyeong
\* gyeon' is retained
C16_Witness ==
    /\ matchPc = "returned"
    /\ matchInfo = Some([chkpetleash |-> Some("Y"), chkpetsize |-> Some(SoHyeong)])
    /\ matchSizes = << <<"so", "hyeong", "gyeon">> >>
    /\ matchResult

====
